---- MODULE Spec2Model ----
(***************************************************************************)
(* Model of src/api/app.py: the price phrase extractor                     *)
(* (_extract_price_filters) and the /search handler that calls it.         *)
(*                                                                         *)
(* Text is a sequence of one-character strings.  Prices are fixed-point    *)
(* numbers in hundredths (Scale), so that 0.9*val and 1.1*val are exact    *)
(* for the literals the model draws.  Python's None is the empty tuple,    *)
(* a present bound v is <<v>>.                                             *)
(***************************************************************************)
EXTENDS Integers, Sequences, FiniteSets, TLC

\* ------------------------------------------------------------------------
\* Characters and Python string methods
\* ------------------------------------------------------------------------

Digits == {"0", "1", "2", "3", "4", "5", "6", "7", "8", "9"}

LowerCase == <<"a", "b", "c", "d", "e", "f", "g", "h", "i", "j", "k", "l", "m",
               "n", "o", "p", "q", "r", "s", "t", "u", "v", "w", "x", "y", "z">>

UpperCase == <<"A", "B", "C", "D", "E", "F", "G", "H", "I", "J", "K", "L", "M",
               "N", "O", "P", "Q", "R", "S", "T", "U", "V", "W", "X", "Y", "Z">>

CharsOf(f) == {f[i] : i \in DOMAIN f}

\* str.isspace() characters: what strip() trims and split() splits on
WhiteSpace == {" ", "\t", "\n", "\r"}

\* [A-Za-z0-9_]: the characters \b treats as part of a word
WordChars == CharsOf(LowerCase) \cup CharsOf(UpperCase) \cup Digits \cup {"_"}

DigitValue(c) == CHOOSE n \in 0..9 : ToString(n) = c

LowerChar(c) ==
    IF c \in CharsOf(UpperCase)
    THEN LowerCase[CHOOSE i \in DOMAIN UpperCase : UpperCase[i] = c]
    ELSE c

\* str.lower()
Lower(str) == [i \in DOMAIN str |-> LowerChar(str[i])]

\* the least and the greatest element of a non-empty set of integers
Least(S) == CHOOSE i \in S : \A j \in S : i <= j
Greatest(S) == CHOOSE i \in S : \A j \in S : i >= j

\* str.strip(): from the first to the last character that is not whitespace
Strip(str) ==
    LET solid == {i \in DOMAIN str : str[i] \notin WhiteSpace}
    IN  IF solid = {} THEN <<>> ELSE SubSeq(str, Least(solid), Greatest(solid))

\* whether sub stands in str at position i
OccursAt(sub, str, i) ==
    /\ i + Len(sub) - 1 <= Len(str)
    /\ \A k \in 1..Len(sub) : str[i + k - 1] = sub[k]

\* the Python operator "sub in str"
Contains(str, sub) == \E i \in 1..(Len(str) + 1) : OccursAt(sub, str, i)

\* str.replace(old, new): every non-overlapping occurrence, left to right
RECURSIVE ReplaceFrom(_, _, _, _)
ReplaceFrom(str, old, new, i) ==
    LET found == {j \in i..Len(str) : OccursAt(old, str, j)}
    IN  IF found = {} THEN SubSeq(str, i, Len(str))
        ELSE LET j == Least(found)
             IN  SubSeq(str, i, j - 1) \o new \o ReplaceFrom(str, old, new, j + Len(old))

Replace(str, old, new) ==
    IF old = <<>> THEN str ELSE ReplaceFrom(str, old, new, 1)

\* " ".join(str.split()): whitespace runs collapsed, ends trimmed
Squish(str) ==
    LET t == Strip(str)
        keep == {i \in DOMAIN t : t[i] \notin WhiteSpace \/ t[i - 1] \notin WhiteSpace}
        nth(k) == CHOOSE i \in keep : Cardinality({j \in keep : j <= i}) = k
    IN  [k \in 1..Cardinality(keep) |->
           IF t[nth(k)] \in WhiteSpace THEN " " ELSE t[nth(k)]]

\* ------------------------------------------------------------------------
\* Python's re: a backtracking matcher over regular expression trees.
\* Match gives every way the expression matches at position i, in the order
\* the backtracking engine tries them; the engine takes the first.
\* A result is [e |-> position after the match, c |-> the groups' spans].
\* ------------------------------------------------------------------------

Lit(w)      == [t |-> "lit", w |-> w]
Set(cs)     == [t |-> "set", cs |-> cs]
Cat(rs)     == [t |-> "cat", rs |-> rs]
Alt(rs)     == [t |-> "alt", rs |-> rs]
Star(r)     == [t |-> "star", r |-> r]
Opt(r)      == [t |-> "opt", r |-> r]
Rep(r, lo, hi) == [t |-> "rep", r |-> r, lo |-> lo, hi |-> hi]
Grp(n, r)   == [t |-> "grp", n |-> n, r |-> r]
WordBoundary == [t |-> "wb"]
Plus(r)     == Cat(<<r, Star(r)>>)

NoGroups == <<<<>>, <<>>>>

IsWordAt(str, i) == i >= 1 /\ i <= Len(str) /\ str[i] \in WordChars

RECURSIVE Match(_, _, _, _), MatchCat(_, _, _, _, _), MatchAlt(_, _, _, _, _),
          MatchStar(_, _, _, _), MatchRep(_, _, _, _, _, _),
          Continue(_, _, _, _, _), ContinueStar(_, _, _, _, _),
          ContinueRep(_, _, _, _, _, _, _)

Match(r, str, i, caps) ==
    CASE r.t = "lit" ->
           IF OccursAt(r.w, str, i)
           THEN <<[e |-> i + Len(r.w), c |-> caps]>> ELSE <<>>
      [] r.t = "set" ->
           IF i <= Len(str) /\ str[i] \in r.cs
           THEN <<[e |-> i + 1, c |-> caps]>> ELSE <<>>
      [] r.t = "wb" ->
           IF IsWordAt(str, i - 1) # IsWordAt(str, i)
           THEN <<[e |-> i, c |-> caps]>> ELSE <<>>
      [] r.t = "cat" -> MatchCat(r.rs, 1, str, i, caps)
      [] r.t = "alt" -> MatchAlt(r.rs, 1, str, i, caps)
      [] r.t = "star" -> MatchStar(r.r, str, i, caps)
      [] r.t = "opt" -> Match(r.r, str, i, caps) \o <<[e |-> i, c |-> caps]>>
      [] r.t = "rep" -> MatchRep(r.r, r.lo, r.hi, str, i, caps)
      [] r.t = "grp" ->
           LET xs == Match(r.r, str, i, caps)
           IN  [k \in DOMAIN xs |->
                  [e |-> xs[k].e, c |-> [xs[k].c EXCEPT ![r.n] = <<i, xs[k].e>>]]]

\* rs[k..] matched one after the other from position i
MatchCat(rs, k, str, i, caps) ==
    IF k > Len(rs) THEN <<[e |-> i, c |-> caps]>>
    ELSE Continue(Match(rs[k], str, i, caps), 1, rs, k + 1, str)

\* each way xs[j..] of matching the head, followed by rs[k..]
Continue(xs, j, rs, k, str) ==
    IF j > Len(xs) THEN <<>>
    ELSE MatchCat(rs, k, str, xs[j].e, xs[j].c) \o Continue(xs, j + 1, rs, k, str)

\* the alternatives rs[k..], tried left to right
MatchAlt(rs, k, str, i, caps) ==
    IF k > Len(rs) THEN <<>>
    ELSE Match(rs[k], str, i, caps) \o MatchAlt(rs, k + 1, str, i, caps)

\* greedy r*: one more r first, the empty match last
MatchStar(r, str, i, caps) ==
    ContinueStar(Match(r, str, i, caps), 1, r, str, i) \o <<[e |-> i, c |-> caps]>>

ContinueStar(xs, j, r, str, i) ==
    IF j > Len(xs) THEN <<>>
    ELSE (IF xs[j].e > i THEN MatchStar(r, str, xs[j].e, xs[j].c) ELSE <<>>)
         \o ContinueStar(xs, j + 1, r, str, i)

\* greedy r{lo,hi}
MatchRep(r, lo, hi, str, i, caps) ==
    (IF hi > 0
     THEN ContinueRep(Match(r, str, i, caps), 1, r, lo, hi, str, i)
     ELSE <<>>)
    \o (IF lo <= 0 THEN <<[e |-> i, c |-> caps]>> ELSE <<>>)

ContinueRep(xs, j, r, lo, hi, str, i) ==
    IF j > Len(xs) THEN <<>>
    ELSE MatchRep(r, lo - 1, hi - 1, str, xs[j].e, xs[j].c)
         \o ContinueRep(xs, j + 1, r, lo, hi, str, i)

\* A match object: the span of group 0 and the text of groups 0, 1, 2
MatchObject(str, i, x) ==
    [start |-> i, end |-> x.e,
     g0 |-> SubSeq(str, i, x.e - 1),
     g1 |-> IF x.c[1] = <<>> THEN <<>> ELSE SubSeq(str, x.c[1][1], x.c[1][2] - 1),
     g2 |-> IF x.c[2] = <<>> THEN <<>> ELSE SubSeq(str, x.c[2][1], x.c[2][2] - 1)]

\* re.finditer(pat, str): the non-overlapping matches scanning left to right
\* from position i, over the string as it was when the call was made
RECURSIVE FindIterFrom(_, _, _)
FindIterFrom(pat, str, i) ==
    LET found == {j \in i..(Len(str) + 1) : Match(pat, str, j, NoGroups) # <<>>}
    IN  IF found = {} THEN <<>>
        ELSE LET j == Least(found)
                 x == Match(pat, str, j, NoGroups)[1]
             IN  <<MatchObject(str, j, x)>>
                 \o FindIterFrom(pat, str, IF x.e > j THEN x.e ELSE j + 1)

FindIter(pat, str) == FindIterFrom(pat, str, 1)

\* re.search(pat, str) is not None
Search(pat, str) == \E i \in 1..(Len(str) + 1) : Match(pat, str, i, NoGroups) # <<>>

\* re.sub(pat, repl, str)
RECURSIVE SubFrom(_, _, _, _, _)
SubFrom(pat, repl, str, ms, i) ==
    IF ms = <<>> THEN SubSeq(str, i, Len(str))
    ELSE SubSeq(str, i, Head(ms).start - 1) \o repl
         \o SubFrom(pat, repl, str, Tail(ms), Head(ms).end)

Sub(pat, repl, str) == SubFrom(pat, repl, str, FindIter(pat, str), 1)

\* ------------------------------------------------------------------------
\* Price NLP: the patterns of _extract_price_filters
\* ------------------------------------------------------------------------

W_between == <<"b", "e", "t", "w", "e", "e", "n">>
W_from == <<"f", "r", "o", "m">>
W_and == <<"a", "n", "d">>
W_to == <<"t", "o">>
W_under == <<"u", "n", "d", "e", "r">>
W_below == <<"b", "e", "l", "o", "w">>
W_at == <<"a", "t">>
W_most == <<"m", "o", "s", "t">>
W_up == <<"u", "p">>
W_over == <<"o", "v", "e", "r">>
W_above == <<"a", "b", "o", "v", "e">>
W_least == <<"l", "e", "a", "s", "t">>
W_around == <<"a", "r", "o", "u", "n", "d">>
W_about == <<"a", "b", "o", "u", "t">>
W_approx == <<"a", "p", "p", "r", "o", "x">>
W_imately == <<"i", "m", "a", "t", "e", "l", "y">>
W_exactly == <<"e", "x", "a", "c", "t", "l", "y">>
W_usd == <<"u", "s", "d">>
W_dollar == <<"d", "o", "l", "l", "a", "r">>
W_cheap == <<"c", "h", "e", "a", "p">>
W_inexpensive == <<"i", "n", "e", "x", "p", "e", "n", "s", "i", "v", "e">>
W_budget == <<"b", "u", "d", "g", "e", "t">>
W_expensive == <<"e", "x", "p", "e", "n", "s", "i", "v", "e">>
W_premium == <<"p", "r", "e", "m", "i", "u", "m">>
W_high_end == <<"h", "i", "g", "h", "-", "e", "n", "d">>

Digit == Set(Digits)

\* \s
AnySpace == Set({" ", "\t", "\n", "\r"})

\* _NUM = (?:\d{1,3}(?:,\d{3})*|\d+)(?:\.\d+)?
NUM ==
    Cat(<<Alt(<<Cat(<<Rep(Digit, 1, 3), Star(Cat(<<Lit(<<",">>), Rep(Digit, 3, 3)>>))>>),
                Plus(Digit)>>),
          Opt(Cat(<<Lit(<<".">>), Plus(Digit)>>))>>)

\* _CURRENCY = (?:\$|usd|dollars?)
CURRENCY == Alt(<<Lit(<<"$">>), Lit(W_usd), Cat(<<Lit(W_dollar), Opt(Lit(<<"s">>))>>)>>)

\* _WS = [ \t]*
WS == Star(Set({" ", "\t"}))

\* (?:{_WS}{_CURRENCY})?
OptCurrency == Opt(Cat(<<WS, CURRENCY>>))

\* keyword, _WS, one captured number, optional currency
OneNumber(keyword) == Cat(<<keyword, WS, Grp(1, NUM), OptCurrency>>)

IntervalPatterns ==
    << Cat(<<Alt(<<Lit(W_between), Lit(W_from)>>), WS, Grp(1, NUM), WS,
             Alt(<<Lit(W_and), Lit(W_to), Lit(<<"-">>)>>), WS, Grp(2, NUM), OptCurrency>>),
       Cat(<<Grp(1, NUM), WS, Lit(<<"-">>), WS, Grp(2, NUM), OptCurrency>>) >>

UpperPatterns ==
    << OneNumber(Alt(<<Lit(W_under), Lit(W_below),
                       Cat(<<Lit(W_at), Star(AnySpace), Lit(W_most)>>)>>)),
       OneNumber(Alt(<<Lit(<<"<", "=">>), Lit(<<"<">>)>>)),
       OneNumber(Cat(<<Lit(W_up), Star(AnySpace), Lit(W_to)>>)) >>

LowerPatterns ==
    << OneNumber(Alt(<<Lit(W_over), Lit(W_above),
                       Cat(<<Lit(W_at), Star(AnySpace), Lit(W_least)>>)>>)),
       OneNumber(Alt(<<Lit(<<">", "=">>), Lit(<<">">>)>>)) >>

ApproxPatterns ==
    << OneNumber(Alt(<<Lit(W_around), Lit(W_about),
                       Cat(<<Lit(W_approx), Opt(Alt(<<Lit(<<".">>), Lit(W_imately)>>))>>)>>)),
       OneNumber(Lit(W_exactly)) >>

\* \b(cheap|inexpensive|budget)\b
CheapWords ==
    Cat(<<WordBoundary, Alt(<<Lit(W_cheap), Lit(W_inexpensive), Lit(W_budget)>>),
          WordBoundary>>)

\* \b(expensive|premium|high-end)\b
ExpensiveWords ==
    Cat(<<WordBoundary, Alt(<<Lit(W_expensive), Lit(W_premium), Lit(W_high_end)>>),
          WordBoundary>>)

\* The four pattern loops in the order the function runs them
Tag(pats, kind) == [k \in DOMAIN pats |-> [re |-> pats[k], kind |-> kind]]

Patterns ==
    Tag(IntervalPatterns, "interval") \o Tag(UpperPatterns, "upper")
    \o Tag(LowerPatterns, "lower") \o Tag(ApproxPatterns, "approx")

\* ------------------------------------------------------------------------
\* Numbers: floats as fixed-point hundredths
\* ------------------------------------------------------------------------

Scale == 100

None == <<>>

Min2(a, b) == IF a <= b THEN a ELSE b
Max2(a, b) == IF a >= b THEN a ELSE b

RECURSIVE IntOf(_)
IntOf(ds) ==
    IF ds = <<>> THEN 0
    ELSE 10 * IntOf(SubSeq(ds, 1, Len(ds) - 1)) + DigitValue(ds[Len(ds)])

RECURSIVE FracOf(_, _)
FracOf(ds, unit) ==
    IF ds = <<>> \/ unit = 0 THEN 0
    ELSE DigitValue(Head(ds)) * unit + FracOf(Tail(ds), unit \div 10)

\* float(str) of digits with an optional fraction
ParseFloat(str) ==
    IF \E i \in DOMAIN str : str[i] = "."
    THEN LET dot == CHOOSE i \in DOMAIN str : str[i] = "."
         IN  IntOf(SubSeq(str, 1, dot - 1)) * Scale
             + FracOf(SubSeq(str, dot + 1, Len(str)), Scale \div 10)
    ELSE IntOf(str) * Scale

\* _to_float(s) = float(s.replace(",", ""))
ToFloat(str) == ParseFloat(Replace(str, <<",">>, <<>>))

\* ------------------------------------------------------------------------
\* _extract_price_filters, step by step
\* ------------------------------------------------------------------------

\* min_price = lo if min_price is None else max(min_price, lo)
TightenMin(cur, lo) == IF cur = None THEN <<lo>> ELSE <<Max2(cur[1], lo)>>

\* max_price = hi if max_price is None else min(max_price, hi)
TightenMax(cur, hi) == IF cur = None THEN <<hi>> ELSE <<Min2(cur[1], hi)>>

\* s = s.replace(m.group(0), " ")
Erase(str, m) == Replace(str, m.g0, <<" ">>)

\* s = " " + q.lower().strip() + " ", both bounds None
StartState(query) ==
    [s |-> <<" ">> \o Strip(Lower(query)) \o <<" ">>,
     min_price |-> None, max_price |-> None]

\* the body of one of the four loops for the match m
ApplyMatch(kind, m, X) ==
    CASE kind = "interval" ->
           LET a == ToFloat(m.g1)
               b == ToFloat(m.g2)
           IN  [s |-> Erase(X.s, m),
                min_price |-> TightenMin(X.min_price, Min2(a, b)),
                max_price |-> TightenMax(X.max_price, Max2(a, b))]
      [] kind = "upper" ->
           [X EXCEPT !.s = Erase(X.s, m),
                     !.max_price = TightenMax(X.max_price, ToFloat(m.g1))]
      [] kind = "lower" ->
           [X EXCEPT !.s = Erase(X.s, m),
                     !.min_price = TightenMin(X.min_price, ToFloat(m.g1))]
      [] kind = "approx" ->
           LET val == ToFloat(m.g1)
               wide == \/ Contains(m.g0, W_around)
                       \/ Contains(m.g0, W_about)
                       \/ Contains(m.g0, W_approx)
               lo == IF wide THEN (9 * val) \div 10 ELSE val
               hi == IF wide THEN (11 * val) \div 10 ELSE val
           IN  [s |-> Erase(X.s, m),
                min_price |-> TightenMin(X.min_price, lo),
                max_price |-> TightenMax(X.max_price, hi)]

\* CheapStep with the "if max_price is None" test left out
CheapStep_Overwrites(X) ==
    IF Search(CheapWords, X.s)
    THEN [X EXCEPT !.max_price = <<15 * Scale>>,
                   !.s = Sub(CheapWords, <<" ">>, X.s)]
    ELSE X

\* cheap / inexpensive / budget: a default max of 15.0 when none is set
CheapStep(X) ==
    IF Search(CheapWords, X.s)
    THEN [X EXCEPT !.max_price = IF X.max_price = None THEN <<15 * Scale>> ELSE @,
                   !.s = Sub(CheapWords, <<" ">>, X.s)]
    ELSE X

\* expensive / premium / high-end: a default min of 100.0 when none is set
ExpensiveStep(X) ==
    IF Search(ExpensiveWords, X.s)
    THEN [X EXCEPT !.min_price = IF X.min_price = None THEN <<100 * Scale>> ELSE @,
                   !.s = Sub(ExpensiveWords, <<" ">>, X.s)]
    ELSE X

\* Cleaned with the fallback left out
Cleaned_NoFallback(str, original) == Squish(str)

\* cleaned = " ".join(s.split()), or the original query when that is empty
Cleaned(str, original) ==
    LET c == Squish(str) IN IF c = <<>> THEN original ELSE c

\* one for-loop over re.finditer(pat, s): the matches are those of s as it
\* was when the loop began, each applied to the current state
RECURSIVE ApplyAll(_, _, _)
ApplyAll(kind, ms, X) ==
    IF ms = <<>> THEN X ELSE ApplyAll(kind, Tail(ms), ApplyMatch(kind, Head(ms), X))

RECURSIVE RunPatterns(_, _)
RunPatterns(k, X) ==
    IF k > Len(Patterns) THEN X
    ELSE RunPatterns(k + 1, ApplyAll(Patterns[k].kind, FindIter(Patterns[k].re, X.s), X))

\* the whole function: <<cleaned, min_price, max_price>>
ExtractPriceFilters(query) ==
    LET X == ExpensiveStep(CheapStep(RunPatterns(1, StartState(query))))
    IN  <<Cleaned(X.s, query), X.min_price, X.max_price>>

\* ------------------------------------------------------------------------
\* The vector store behind client.search
\* ------------------------------------------------------------------------

\* bounds of the model
MaxWords == 3
MaxStore == 15
MaxTopK == 14

\* the least number of candidates asked of the store (line 258)
PoolMin == 12

\* top_k and score_threshold when the request names none (lines 220-221)
DefaultTopK == 8
DefaultThreshold == 20

\* The products in the collection, best match first: what upsert_products
\* loaded.  Prices and scores are in hundredths.
Products ==
    [i \in 1..MaxStore |->
       [product_id |-> i,
        price |-> (((i * 7) % 23) + 1) * Scale,
        category |-> IF i % 3 = 0 THEN "bath" ELSE "kitchen",
        score |-> 95 - 5 * i]]

\* FieldCondition(key="price", range=Range(gte=min_price, lte=max_price))
InRange(price, lo, hi) ==
    /\ lo = None \/ price >= lo[1]
    /\ hi = None \/ price <= hi[1]

\* the points the filter and the score threshold let through, in score order
Hits(lo, hi, cat, threshold) ==
    SelectSeq(Products,
              LAMBDA p : /\ p.score >= threshold
                         /\ InRange(p.price, lo, hi)
                         /\ cat = None \/ p.category = cat[1])

\* list[:n] for a list and an int n, as Python slices
Slice(list, n) ==
    IF n >= 0 THEN SubSeq(list, 1, Min2(n, Len(list)))
    ELSE SubSeq(list, 1, Max2(Len(list) + n, 0))

\* PoolSize asking the store for top_k candidates only
PoolSize_TopK(k) == k

\* limit=max(top_k, 12)
PoolSize(k) == Max2(k, PoolMin)

\* client.search(...): at most limit hits
StoreSearch(lo, hi, cat, threshold, lim) == Slice(Hits(lo, hi, cat, threshold), lim)

\* [r.payload for r in res[:top_k]]
Payloads(found, k) ==
    LET cut == Slice(found, k) IN [i \in DOMAIN cut |-> cut[i].product_id]

\* ------------------------------------------------------------------------
\* Requests
\* ------------------------------------------------------------------------

RECURSIVE JoinWords(_)
JoinWords(ws) ==
    IF ws = <<>> THEN <<>>
    ELSE IF Len(ws) = 1 THEN ws[1]
    ELSE ws[1] \o <<" ">> \o JoinWords(Tail(ws))

\* the queries of the docstrings and of the documentation, and a few more
Q_cleaning_spray == <<"c", "l", "e", "a", "n", "i", "n", "g", " ", "s", "p", "r", "a", "y", " ", "u", "n", "d", "e", "r", " ", "1", "0", " ", "d", "o", "l", "l", "a", "r", "s">>
Q_premium_detergent == <<"p", "r", "e", "m", "i", "u", "m", " ", "d", "e", "t", "e", "r", "g", "e", "n", "t">>
Q_microfiber == <<"m", "i", "c", "r", "o", "f", "i", "b", "e", "r", " ", "c", "l", "o", "t", "h", "s", " ", "5", "-", "1", "0">>
Q_towels_plain == <<"t", "o", "w", "e", "l", "s", " ", "5", "-", "1", "0">>
Q_towels_dollar == <<"t", "o", "w", "e", "l", "s", " ", "$", "5", " ", "-", " ", "$", "1", "0">>
Q_towels_to == <<"t", "o", "w", "e", "l", "s", " ", "5", " ", "t", "o", " ", "1", "0", " ", "d", "o", "l", "l", "a", "r", "s">>
Q_between_15_and_5 == <<"b", "e", "t", "w", "e", "e", "n", " ", "1", "5", " ", "a", "n", "d", " ", "5">>
Q_cheap_but_over_5 == <<"c", "h", "e", "a", "p", ",", " ", "b", "u", "t", " ", "o", "v", "e", "r", " ", "5">>
Q_under_dollar_10 == <<"u", "n", "d", "e", "r", " ", "$", "1", "0">>
Q_under_10 == <<"u", "n", "d", "e", "r", " ", "1", "0">>
Q_ge_dollar_25 == <<">", "=", " ", "$", "2", "5">>
Q_ge_25 == <<">", "=", " ", "2", "5">>
Q_detergent_gt_20 == <<"d", "e", "t", "e", "r", "g", "e", "n", "t", " ", ">", " ", "2", "0">>
Q_under_1500 == <<"u", "n", "d", "e", "r", " ", "1", "5", "0", "0">>
Q_under_1_500 == <<"u", "n", "d", "e", "r", " ", "1", ",", "5", "0", "0">>
Q_two_upper_a == <<"u", "n", "d", "e", "r", " ", "1", "5", "0", "0", " ", "u", "n", "d", "e", "r", " ", "2", "0", "0">>
Q_two_upper_b == <<"u", "n", "d", "e", "r", " ", "2", "0", "0", " ", "<", " ", "1", "5", "0", "0">>
Q_two_lower == <<"o", "v", "e", "r", " ", "5", " ", "o", "v", "e", "r", " ", "1", "0">>
Q_double == <<"o", "v", "e", "r", " ", "u", "n", "d", "e", "r", " ", "1", " ", "u", "n", "d", "e", "r", " ", "1", "0">>
Q_repeat == <<"u", "n", "d", "e", "r", " ", "5", " ", "v", "s", " ", "u", "n", "d", "e", "r", " ", "5">>
Q_under_cheap_10 == <<"u", "n", "d", "e", "r", " ", "c", "h", "e", "a", "p", " ", "1", "0">>
Q_upper_case == <<"T", "o", "w", "e", "l", "s", " ", "U", "N", "D", "E", "R", " ", "1", "0">>
Q_only_upper_case == <<"U", "N", "D", "E", "R", " ", "1", "0">>
Q_from_to == <<"f", "r", "o", "m", " ", "5", " ", "t", "o", " ", "1", "0", " ", "u", "s", "d">>
Q_around_10 == <<"a", "r", "o", "u", "n", "d", " ", "1", "0">>
Q_exactly_under == <<"e", "x", "a", "c", "t", "l", "y", " ", "5", " ", "u", "n", "d", "e", "r", " ", "3">>
Q_up_to == <<"u", "p", " ", "t", "o", " ", "2", "0">>
Q_at_most_least == <<"a", "t", " ", "m", "o", "s", "t", " ", "2", "0", " ", "a", "t", " ", "l", "e", "a", "s", "t", " ", "5">>
Q_empty == <<>>
Q_blank == <<" ", " ">>

Examples ==
    {Q_cleaning_spray, Q_premium_detergent, Q_microfiber, Q_towels_plain,
     Q_towels_dollar, Q_towels_to, Q_between_15_and_5, Q_cheap_but_over_5,
     Q_under_dollar_10, Q_under_10, Q_ge_dollar_25, Q_ge_25,
     Q_detergent_gt_20, Q_under_1500, Q_under_1_500, Q_two_upper_a,
     Q_two_upper_b, Q_two_lower, Q_double, Q_repeat, Q_under_cheap_10,
     Q_upper_case, Q_only_upper_case, Q_from_to, Q_around_10,
     Q_exactly_under, Q_up_to, Q_at_most_least, Q_empty, Q_blank}

W_lt == <<"<">>
W_5 == <<"5">>
W_10 == <<"1", "0">>
W_1500 == <<"1", "5", "0", "0">>
W_mop == <<"m", "o", "p">>

\* words a query is put together from
Vocabulary ==
    {W_under, W_lt, W_over, W_cheap, W_premium, W_5, W_10, W_1500, W_mop}

WordQueries ==
    {JoinWords(ws) : ws \in UNION {[1..n -> Vocabulary] : n \in 0..MaxWords}}

\* GET /search?q=... with top_k, score_threshold and category left at their
\* defaults
TextRequests ==
    [q : WordQueries \cup Examples, top_k : {DefaultTopK},
     score_threshold : {DefaultThreshold}, category : {None}]

\* GET /search with every parameter given
FullRequests ==
    [q : Examples, top_k : 1..MaxTopK,
     score_threshold : {DefaultThreshold, 50}, category : {None, <<"kitchen">>}]

\* ------------------------------------------------------------------------
\* The /search handler as a state machine
\* ------------------------------------------------------------------------

VARIABLES
    pc,                 \* where the handler stands
    q, top_k, score_threshold, category,    \* the request
    s, min_price, max_price,                \* locals of _extract_price_filters
    idx,                \* the pattern whose loop is running (index in Patterns)
    pending,            \* the matches re.finditer has yet to yield
    cleaned,            \* the cleaned query returned
    limit, res,         \* the store call and its answer
    response            \* the payloads returned

vars == <<pc, q, top_k, score_threshold, category, s, min_price, max_price,
          idx, pending, cleaned, limit, res, response>>

request == <<q, top_k, score_threshold, category>>
store == <<limit, res, response>>

Init ==
    /\ \E r \in TextRequests \cup FullRequests :
          /\ q = r.q
          /\ top_k = r.top_k
          /\ score_threshold = r.score_threshold
          /\ category = r.category
    /\ pc = "start"
    /\ s = <<>>
    /\ min_price = None
    /\ max_price = None
    /\ idx = 0
    /\ pending = <<>>
    /\ cleaned = <<>>
    /\ limit = 0
    /\ res = <<>>
    /\ response = <<>>

\* lines 94-97, and the first loop's call of re.finditer
Start ==
    /\ pc = "start"
    /\ LET X == StartState(q)
       IN  /\ s' = X.s
           /\ min_price' = X.min_price
           /\ max_price' = X.max_price
           /\ idx' = 1
           /\ pending' = FindIter(Patterns[1].re, X.s)
    /\ pc' = "loop"
    /\ UNCHANGED <<request, cleaned, store>>

\* one turn of a for-loop over the matches: the next match is applied
ProcessMatch ==
    /\ pc = "loop"
    /\ pending # <<>>
    /\ LET X == ApplyMatch(Patterns[idx].kind, Head(pending),
                           [s |-> s, min_price |-> min_price, max_price |-> max_price])
       IN  /\ s' = X.s
           /\ min_price' = X.min_price
           /\ max_price' = X.max_price
    /\ pending' = Tail(pending)
    /\ UNCHANGED <<pc, idx, request, cleaned, store>>

\* a loop is exhausted: the next pattern's re.finditer(pat, s) is called
NextPattern ==
    /\ pc = "loop"
    /\ pending = <<>>
    /\ idx < Len(Patterns)
    /\ idx' = idx + 1
    /\ pending' = FindIter(Patterns[idx + 1].re, s)
    /\ UNCHANGED <<pc, s, min_price, max_price, request, cleaned, store>>

\* the last loop is exhausted
EndPatterns ==
    /\ pc = "loop"
    /\ pending = <<>>
    /\ idx = Len(Patterns)
    /\ pc' = "cheap"
    /\ UNCHANGED <<s, min_price, max_price, idx, pending, request, cleaned, store>>

\* lines 147-151
SoftCheap ==
    /\ pc = "cheap"
    /\ LET X == CheapStep([s |-> s, min_price |-> min_price, max_price |-> max_price])
       IN  /\ s' = X.s
           /\ min_price' = X.min_price
           /\ max_price' = X.max_price
    /\ pc' = "expensive"
    /\ UNCHANGED <<idx, pending, request, cleaned, store>>

\* lines 153-156
SoftExpensive ==
    /\ pc = "expensive"
    /\ LET X == ExpensiveStep([s |-> s, min_price |-> min_price, max_price |-> max_price])
       IN  /\ s' = X.s
           /\ min_price' = X.min_price
           /\ max_price' = X.max_price
    /\ pc' = "finish"
    /\ UNCHANGED <<idx, pending, request, cleaned, store>>

\* lines 158-162: the function returns to the handler
Finish ==
    /\ pc = "finish"
    /\ cleaned' = Cleaned(s, q)
    /\ pc' = "extracted"
    /\ UNCHANGED <<s, min_price, max_price, idx, pending, request, store>>

\* lines 236-264: the filter, the store call and the answer
Respond ==
    /\ pc = "extracted"
    /\ limit' = PoolSize(top_k)
    /\ res' = StoreSearch(min_price, max_price, category, score_threshold, PoolSize(top_k))
    /\ response' =
         Payloads(StoreSearch(min_price, max_price, category, score_threshold,
                              PoolSize(top_k)), top_k)
    /\ pc' = "done"
    /\ UNCHANGED <<s, min_price, max_price, idx, pending, request, cleaned>>

Next ==
    \/ Start
    \/ ProcessMatch
    \/ NextPattern
    \/ EndPatterns
    \/ SoftCheap
    \/ SoftExpensive
    \/ Finish
    \/ Respond

Spec == Init /\ [][Next]_vars

\* ------------------------------------------------------------------------
\* Properties
\* ------------------------------------------------------------------------

\* _extract_price_filters has returned
Extracted == pc = "extracted"

\* text holds one of the words as a whole word: no letter, digit or
\* underscore touches it on either side
HasWholeWord(text, words) ==
    \E w \in words : \E i \in 1..Len(text) :
        /\ OccursAt(w, text, i)
        /\ ~IsWordAt(text, i - 1)
        /\ ~IsWordAt(text, i + Len(w))

HasDigit(text) == \E i \in DOMAIN text : text[i] \in Digits

\* C1: whenever the function returns both bounds, min_price <= max_price.
C1_RangeNormalized ==
    (Extracted /\ min_price # None /\ max_price # None)
        => min_price[1] <= max_price[1]

\* C2: extracting again from the cleaned text finds no bound and returns
\* the cleaned text itself.
C2_Idempotent ==
    Extracted => ExtractPriceFilters(cleaned) = <<cleaned, None, None>>

\* C3: "towels 5-10", "towels $5 - $10" and "towels 5 to 10 dollars" all
\* give min_price = 5 and max_price = 10.
C3_IntervalForms ==
    (Extracted /\ q \in {Q_towels_plain, Q_towels_dollar, Q_towels_to})
        => min_price = <<5 * Scale>> /\ max_price = <<10 * Scale>>

\* C4: in "under N" and "< N" the literal N, grouped by commas or not, is
\* taken whole: the bound is the value of all of N and no digit stays in
\* the working text.
C4_WholeLiteral ==
    Extracted =>
        \A k \in {W_under, W_lt} : \A n \in {W_5, W_10, W_1500, <<"1", ",", "5", "0", "0">>} :
            q = JoinWords(<<k, n>>) => max_price = <<ToFloat(n)>> /\ ~HasDigit(s)

\* C5: two upper-bound phrases with the values X and Y give
\* max_price = min(X, Y), in either order and with either pattern; two
\* lower-bound phrases give min_price = max(X, Y).
C5_Tightest ==
    Extracted =>
        \A n1, n2 \in {W_5, W_10, <<"2", "0", "0">>, W_1500} :
            /\ \A k1, k2 \in {W_under, W_lt} :
                  q = JoinWords(<<k1, n1, k2, n2>>)
                      => max_price = <<Min2(ToFloat(n1), ToFloat(n2))>>
            /\ \A k1, k2 \in {W_over, <<">">>} :
                  q = JoinWords(<<k1, n1, k2, n2>>)
                      => min_price = <<Max2(ToFloat(n1), ToFloat(n2))>>

\* float(text) raises no ValueError: digits, with at most one point among
\* them
FloatAccepts(text) ==
    /\ HasDigit(text)
    /\ \A i \in DOMAIN text : text[i] \in Digits \cup {"."}
    /\ Cardinality({i \in DOMAIN text : text[i] = "."}) <= 1

C7_SoftPrecedence ==
    [][ /\ pc = "cheap" =>
            /\ min_price' = min_price
            /\ max_price' =
                 IF max_price # None THEN max_price
                 ELSE IF HasWholeWord(s, {W_cheap, W_inexpensive, W_budget})
                      THEN <<15 * Scale>> ELSE None
        /\ pc = "expensive" =>
            /\ max_price' = max_price
            /\ min_price' =
                 IF min_price # None THEN min_price
                 ELSE IF HasWholeWord(s, {W_expensive, W_premium, W_high_end})
                      THEN <<100 * Scale>> ELSE None
        /\ pc' = "extracted" =>
            /\ q = Q_cheap_but_over_5 =>
                  min_price' = <<5 * Scale>> /\ max_price' = <<15 * Scale>>
            /\ \A k \in {W_under, W_lt} : \A n \in {W_5, W_10} :
                  q \in {JoinWords(<<W_cheap, k, n>>), JoinWords(<<k, n, W_cheap>>)}
                      => max_price' = <<ToFloat(n)>>
            /\ \A n \in {W_5, W_10} :
                  q \in {JoinWords(<<W_premium, W_over, n>>),
                         JoinWords(<<W_over, n, W_premium>>)}
                      => min_price' = <<ToFloat(n)>>
      ]_vars

\* the cheap step has run on a text with a cheap word and an explicit max,
\* and the max is still the explicit one
C7_Witness ==
    /\ pc = "expensive"
    /\ q = JoinWords(<<W_cheap, W_under, W_5>>)
    /\ ~HasWholeWord(s, {W_cheap})
    /\ max_price = <<5 * Scale>>

\* C8: "under $10" gives max_price = 10 and ">= $25" gives min_price = 25,
\* as "under 10" and ">= 25" do.
C8_DollarPrefix ==
    Extracted =>
        /\ q \in {Q_under_dollar_10, Q_under_10} => max_price = <<10 * Scale>>
        /\ q \in {Q_ge_dollar_25, Q_ge_25} => min_price = <<25 * Scale>>

\* C9: for a positive top_k the store is asked for max(top_k, 12)
\* candidates, 12 when top_k <= 12 and top_k above that, and the response is
\* the first top_k of the answer, in the store's score order.
C9_PoolAndTruncation ==
    (pc = "done" /\ top_k > 0) =>
        /\ limit = (IF top_k <= 12 THEN 12 ELSE top_k)
        /\ Len(res) <= limit
        /\ Len(response) <= top_k
        /\ Len(response) = Min2(top_k, Len(res))
        /\ \A i \in DOMAIN response : response[i] = res[i].product_id
        /\ \A i, j \in DOMAIN res : i < j => res[i].score >= res[j].score

\* the store gave its 12 candidates and the response is cut to fewer
C9_Witness ==
    /\ pc = "done"
    /\ top_k < PoolMin
    /\ Len(res) = PoolMin
    /\ Len(response) = top_k

\* C10: each turn of a loop erases the span of its match and nothing else:
\* the match stands in the working text, and the new text is the old one
\* with that one span replaced by a space.
C10_ErasesOneSpan ==
    [][ (pc = "loop" /\ pending # <<>>) =>
            LET g0 == Head(pending).g0
            IN  \E i \in 1..Len(s) :
                    /\ OccursAt(g0, s, i)
                    /\ s' = SubSeq(s, 1, i - 1) \o <<" ">>
                            \o SubSeq(s, i + Len(g0), Len(s))
      ]_vars

====
